---- MODULE Spec2Model ----
(***************************************************************************)
(* A model of glam's SSE2 four-lane boolean mask (src/bool/sse2/bvec4a.rs)  *)
(* and of the flavoured vector wrapper NewTypeVector (src/newtype.rs).      *)
(*                                                                         *)
(* A u32 is modelled by the set of its one-bit positions (bit 0 is the      *)
(* least significant), so the bitwise operators are the set operators and   *)
(* no 32-bit value has to fit an integer of the model.  A __m128 register   *)
(* is a tuple of four such lanes; lane i of the source is index i + 1.      *)
(***************************************************************************)
EXTENDS Integers, Sequences, FiniteSets

VARIABLES a, b, op, args, ret,        \* the mask program
          rules, w, wop, wargs, wret  \* the wrapper program

vars == <<a, b, op, args, ret, rules, w, wop, wargs, wret>>
maskVars == <<a, b, op, args, ret>>
wrapVars == <<rules, w, wop, wargs, wret>>

(***************************************************************************)
(* 32-bit words as sets of bit positions.                                  *)
(***************************************************************************)
LaneBits == 32
NumLanes == 4
BitPos == 0..(LaneBits - 1)
Lanes == 1..NumLanes

\* 0xff_ff_ff_ff
AllOnes == BitPos
Zero == {}

u32_and(x, y) == x \cap y
u32_or(x, y) == x \cup y
u32_xor(x, y) == (x \ y) \cup (y \ x)
u32_not(x) == BitPos \ x
u32_shl(x, k) == {i + k : i \in {j \in x : j + k < LaneBits}}
u32_shr(x, k) == {i - k : i \in {j \in x : j >= k}}

\* the literals the source and the claims use
Lit(n) == {i \in 0..3 : (n \div (2 ^ i)) % 2 = 1}

\* `x as usize` / `x as u32` for a bool
bool_as(x) == IF x THEN 1 ELSE 0
bool_as_u32(x) == IF x THEN {0} ELSE {}

\* `x as usize` for a u32 that is 0 or 1
u32_as_usize(x) == IF 0 \in x THEN 1 ELSE 0

BadMASK == <<Zero, {LaneBits - 1}>>
\* const MASK: [u32; 2] = [0, 0xff_ff_ff_ff], indexed from 0
MASK == <<Zero, AllOnes>>

MaskAt(i) == MASK[i + 1]

(***************************************************************************)
(* The SSE intrinsics the mask uses.                                       *)
(***************************************************************************)
mm_and_ps(x, y) == [i \in Lanes |-> u32_and(x[i], y[i])]
mm_or_ps(x, y) == [i \in Lanes |-> u32_or(x[i], y[i])]
mm_xor_ps(x, y) == [i \in Lanes |-> u32_xor(x[i], y[i])]
\* (NOT x) AND y
mm_andnot_ps(x, y) == [i \in Lanes |-> u32_and(u32_not(x[i]), y[i])]
mm_set_ps1(v) == [i \in Lanes |-> v]
\* bit i of the result is the most significant bit of lane i
mm_movemask_ps(r) == {i \in 0..(NumLanes - 1) : (LaneBits - 1) \in r[i + 1]}

(***************************************************************************)
(* BVec4A                                                                  *)
(***************************************************************************)
Bad_new(x, y, z, w_) ==
    <<MaskAt(bool_as(y)), MaskAt(bool_as(x)), MaskAt(bool_as(z)), MaskAt(bool_as(w_))>>
new(x, y, z, w_) ==
    <<MaskAt(bool_as(x)), MaskAt(bool_as(y)), MaskAt(bool_as(z)), MaskAt(bool_as(w_))>>

FALSE_MASK == new(FALSE, FALSE, FALSE, FALSE)

default == FALSE_MASK

bitmask(self) == mm_movemask_ps(self)

any(self) == mm_movemask_ps(self) # Lit(0)

all(self) == mm_movemask_ps(self) = Lit(15)

Bad_into_bool_array(self) ==
    LET bm == bitmask(self)
    IN  <<u32_and(bm, Lit(1)) # Zero, u32_and(bm, Lit(2)) # Zero,
          u32_and(bm, Lit(4)) # Zero, u32_and(bm, Lit(4)) # Zero>>
into_bool_array(self) ==
    LET bm == bitmask(self)
    IN  <<u32_and(bm, Lit(1)) # Zero, u32_and(bm, Lit(2)) # Zero,
          u32_and(bm, Lit(4)) # Zero, u32_and(bm, Lit(8)) # Zero>>

into_u32_array(self) ==
    LET bm == bitmask(self)
    IN  <<MaskAt(u32_as_usize(u32_and(bm, Lit(1)))),
          MaskAt(u32_as_usize(u32_and(u32_shr(bm, 1), Lit(1)))),
          MaskAt(u32_as_usize(u32_and(u32_shr(bm, 2), Lit(1)))),
          MaskAt(u32_as_usize(u32_and(u32_shr(bm, 3), Lit(1))))>>

Bad_eq(self, rhs) == self = rhs
eq(self, rhs) == bitmask(self) = bitmask(rhs)

\* what Hash::hash feeds to the hasher
hash(self) == bitmask(self)

Bad_bitand(self, rhs) == mm_or_ps(self, rhs)
bitand(self, rhs) == mm_and_ps(self, rhs)

bitand_assign(self, rhs) == bitand(self, rhs)

bitor(self, rhs) == mm_or_ps(self, rhs)

bitor_assign(self, rhs) == bitor(self, rhs)

bitxor(self, rhs) == mm_xor_ps(self, rhs)

bitxor_assign(self, rhs) == bitxor(self, rhs)

Bad_not(self) == mm_andnot_ps(mm_set_ps1(AllOnes), self)
not(self) == mm_andnot_ps(self, mm_set_ps1(AllOnes))

into_m128(t) == t

\* From<BVec4A> for [bool; 4] and for [u32; 4]
from_bool_array(mask) == into_bool_array(mask)

from_u32_array(mask) == into_u32_array(mask)

(***************************************************************************)
(* The mask program: two mask variables a and b, built by new and default  *)
(* and combined by the operators.  Each operation is a call: op, args and   *)
(* ret hold the operation, the operands it read and the value it returned  *)
(* (its type and the value, empty when nothing is returned) until the      *)
(* caller has consumed them (Consume), and then the next call is made.     *)
(***************************************************************************)
InitMask ==
    /\ a = default
    /\ b = default
    /\ op = "idle"
    /\ args = <<>>
    /\ ret = <<>>

New ==
    /\ op = "idle"
    /\ \E x \in BOOLEAN, y \in BOOLEAN, z \in BOOLEAN, w_ \in BOOLEAN, dst \in {"a", "b"} :
           /\ op' = "new"
           /\ args' = <<x, y, z, w_>>
           /\ ret' = <<"BVec4A", new(x, y, z, w_)>>
           /\ a' = IF dst = "a" THEN new(x, y, z, w_) ELSE a
           /\ b' = IF dst = "b" THEN new(x, y, z, w_) ELSE b
           /\ UNCHANGED wrapVars

Default ==
    /\ op = "idle"
    /\ \E dst \in {"a", "b"} :
           /\ op' = "default"
           /\ args' = <<>>
           /\ ret' = <<"BVec4A", default>>
           /\ a' = IF dst = "a" THEN default ELSE a
           /\ b' = IF dst = "b" THEN default ELSE b
           /\ UNCHANGED wrapVars

\* let dst = a & b
BitAnd ==
    /\ op = "idle"
    /\ \E dst \in {"a", "b"} :
           /\ op' = "bitand"
           /\ args' = <<a, b>>
           /\ ret' = <<"BVec4A", bitand(a, b)>>
           /\ a' = IF dst = "a" THEN bitand(a, b) ELSE a
           /\ b' = IF dst = "b" THEN bitand(a, b) ELSE b
           /\ UNCHANGED wrapVars

BitOr ==
    /\ op = "idle"
    /\ \E dst \in {"a", "b"} :
           /\ op' = "bitor"
           /\ args' = <<a, b>>
           /\ ret' = <<"BVec4A", bitor(a, b)>>
           /\ a' = IF dst = "a" THEN bitor(a, b) ELSE a
           /\ b' = IF dst = "b" THEN bitor(a, b) ELSE b
           /\ UNCHANGED wrapVars

BitXor ==
    /\ op = "idle"
    /\ \E dst \in {"a", "b"} :
           /\ op' = "bitxor"
           /\ args' = <<a, b>>
           /\ ret' = <<"BVec4A", bitxor(a, b)>>
           /\ a' = IF dst = "a" THEN bitxor(a, b) ELSE a
           /\ b' = IF dst = "b" THEN bitxor(a, b) ELSE b
           /\ UNCHANGED wrapVars

\* let dst = !a
Not ==
    /\ op = "idle"
    /\ \E dst \in {"a", "b"} :
           /\ op' = "not"
           /\ args' = <<a>>
           /\ ret' = <<"BVec4A", not(a)>>
           /\ a' = IF dst = "a" THEN not(a) ELSE a
           /\ b' = IF dst = "b" THEN not(a) ELSE b
           /\ UNCHANGED wrapVars

\* a &= b
BitAndAssign ==
    /\ op = "idle"
    /\ op' = "bitand_assign"
    /\ args' = <<a, b>>
    /\ a' = bitand_assign(a, b)
    /\ ret' = <<>>
    /\ UNCHANGED <<b>>
    /\ UNCHANGED wrapVars

BitOrAssign ==
    /\ op = "idle"
    /\ op' = "bitor_assign"
    /\ args' = <<a, b>>
    /\ a' = bitor_assign(a, b)
    /\ ret' = <<>>
    /\ UNCHANGED <<b>>
    /\ UNCHANGED wrapVars

BitXorAssign ==
    /\ op = "idle"
    /\ op' = "bitxor_assign"
    /\ args' = <<a, b>>
    /\ a' = bitxor_assign(a, b)
    /\ ret' = <<>>
    /\ UNCHANGED <<b>>
    /\ UNCHANGED wrapVars

Bitmask ==
    /\ op = "idle"
    /\ op' = "bitmask"
    /\ args' = <<a>>
    /\ ret' = <<"u32", bitmask(a)>>
    /\ UNCHANGED <<a, b>>
    /\ UNCHANGED wrapVars

Any ==
    /\ op = "idle"
    /\ op' = "any"
    /\ args' = <<a>>
    /\ ret' = <<"bool", any(a)>>
    /\ UNCHANGED <<a, b>>
    /\ UNCHANGED wrapVars

All ==
    /\ op = "idle"
    /\ op' = "all"
    /\ args' = <<a>>
    /\ ret' = <<"bool", all(a)>>
    /\ UNCHANGED <<a, b>>
    /\ UNCHANGED wrapVars

Eq ==
    /\ op = "idle"
    /\ op' = "eq"
    /\ args' = <<a, b>>
    /\ ret' = <<"bool", eq(a, b)>>
    /\ UNCHANGED <<a, b>>
    /\ UNCHANGED wrapVars

Hash ==
    /\ op = "idle"
    /\ \E m \in {a, b} :
           /\ op' = "hash"
           /\ args' = <<m>>
           /\ ret' = <<"u32", hash(m)>>
    /\ UNCHANGED <<a, b>>
    /\ UNCHANGED wrapVars

IntoBoolArray ==
    /\ op = "idle"
    /\ op' = "from_bool_array"
    /\ args' = <<a>>
    /\ ret' = <<"[bool; 4]", from_bool_array(a)>>
    /\ UNCHANGED <<a, b>>
    /\ UNCHANGED wrapVars

IntoU32Array ==
    /\ op = "idle"
    /\ op' = "from_u32_array"
    /\ args' = <<a>>
    /\ ret' = <<"[u32; 4]", from_u32_array(a)>>
    /\ UNCHANGED <<a, b>>
    /\ UNCHANGED wrapVars

IntoM128 ==
    /\ op = "idle"
    /\ op' = "into_m128"
    /\ args' = <<a>>
    /\ ret' = <<"__m128", into_m128(a)>>
    /\ UNCHANGED <<a, b>>
    /\ UNCHANGED wrapVars

Consume ==
    /\ op # "idle"
    /\ op' = "idle"
    /\ args' = <<>>
    /\ ret' = <<>>
    /\ UNCHANGED <<a, b>>
    /\ UNCHANGED wrapVars

NextMask ==
    \/ New \/ Default
    \/ BitAnd \/ BitOr \/ BitXor \/ Not
    \/ BitAndAssign \/ BitOrAssign \/ BitXorAssign
    \/ Bitmask \/ Any \/ All \/ Eq \/ Hash
    \/ IntoBoolArray \/ IntoU32Array \/ IntoM128
    \/ Consume

WrapIdle ==
    /\ rules = {}
    /\ w = <<>>
    /\ wop = "idle"
    /\ wargs = <<>>
    /\ wret = <<>>

Init == InitMask /\ WrapIdle

Spec == Init /\ [][NextMask]_vars

(***************************************************************************)
(* The same program started from arbitrary register contents: the field of *)
(* BVec4A is crate-visible, so crate code can wrap any __m128.  Each lane   *)
(* is drawn from the four patterns that differ in the most significant bit *)
(* and in the remaining bits; the patterns are closed under the operators. *)
(***************************************************************************)
MsbOnly == {LaneBits - 1}
RawLanes == {Zero, AllOnes, MsbOnly, AllOnes \ MsbOnly}
RawRegisters == [Lanes -> RawLanes]

\* BVec4A(pub(crate) __m128)
BVec4A(reg) == reg

InitRaw ==
    /\ a \in {BVec4A(r) : r \in RawRegisters}
    /\ b \in {BVec4A(r) : r \in RawRegisters}
    /\ op = "idle"
    /\ args = <<>>
    /\ ret = <<>>

NextRaw ==
    \/ BitAnd \/ BitOr \/ BitXor \/ Not
    \/ BitAndAssign \/ BitOrAssign \/ BitXorAssign
    \/ Bitmask \/ Eq \/ Hash
    \/ Consume

InitRawProgram == InitRaw /\ WrapIdle

SpecRaw == InitRawProgram /\ [][NextRaw]_vars

(***************************************************************************)
(* Properties of the mask.                                                 *)
(***************************************************************************)
IsBinaryLane(l) == l = Zero \/ l = AllOnes
IsCanonical(m) == \A i \in Lanes : IsBinaryLane(m[i])
ReturnsMask == {"new", "default", "bitand", "bitor", "bitxor", "not"}
Mixed(m) == (\E i \in Lanes : m[i] = AllOnes) /\ (\E i \in Lanes : m[i] = Zero)
SameSignBits(x, y) == \A i \in Lanes : ((LaneBits - 1) \in x[i]) <=> ((LaneBits - 1) \in y[i])
BoolBits(x, y, z, w_) ==
    u32_or(u32_or(bool_as_u32(x), u32_shl(bool_as_u32(y), 1)),
           u32_or(u32_shl(bool_as_u32(z), 2), u32_shl(bool_as_u32(w_), 3)))

\* C1: every lane of every mask reachable from new and default by the operators
\* &, |, ^, ! and &=, |=, ^= is exactly 0x00000000 or exactly 0xFFFFFFFF.
C1_LaneInvariant ==
    /\ IsCanonical(a)
    /\ IsCanonical(b)
    /\ (op \in ReturnsMask => IsCanonical(ret[2]))

C1_Witness ==
    /\ op \in {"not", "bitxor", "bitand_assign", "bitor_assign", "bitxor_assign"}
    /\ Mixed(a)
    /\ Mixed(b)
    /\ a # b

C5_BitmaskDistributes ==
    /\ (op = "bitand" => bitmask(ret[2]) = u32_and(bitmask(args[1]), bitmask(args[2])))
    /\ (op = "bitor" => bitmask(ret[2]) = u32_or(bitmask(args[1]), bitmask(args[2])))
    /\ (op = "bitxor" => bitmask(ret[2]) = u32_xor(bitmask(args[1]), bitmask(args[2])))
    /\ (op = "bitand_assign" =>
            /\ bitmask(a) = bitmask(bitand(args[1], args[2]))
            /\ bitmask(a) = u32_and(bitmask(args[1]), bitmask(args[2])))
    /\ (op = "bitor_assign" =>
            /\ bitmask(a) = bitmask(bitor(args[1], args[2]))
            /\ bitmask(a) = u32_or(bitmask(args[1]), bitmask(args[2])))
    /\ (op = "bitxor_assign" =>
            /\ bitmask(a) = bitmask(bitxor(args[1], args[2]))
            /\ bitmask(a) = u32_xor(bitmask(args[1]), bitmask(args[2])))

C5_Witness ==
    /\ op = "bitand_assign"
    /\ args = <<new(TRUE, TRUE, FALSE, FALSE), new(TRUE, FALSE, TRUE, FALSE)>>
    /\ bitmask(a) = {0}

\* C6: ! complements every lane: !new(x, y, z, w) is new(!x, !y, !z, !w), the
\* bitmask of !m is (!m.bitmask()) & 0xF, each lane is (NOT lane) AND all-ones,
\* and !!m is m.
C6_Not ==
    op = "not" =>
        /\ \A x \in BOOLEAN, y \in BOOLEAN, z \in BOOLEAN, w_ \in BOOLEAN :
               args[1] = new(x, y, z, w_) =>
                   /\ ret[2] = new(~x, ~y, ~z, ~w_)
                   /\ eq(ret[2], new(~x, ~y, ~z, ~w_))
        /\ bitmask(ret[2]) = u32_and(u32_not(bitmask(args[1])), Lit(15))
        /\ \A i \in Lanes : ret[2][i] = u32_and(u32_not(args[1][i]), AllOnes)
        /\ not(ret[2]) = args[1]
        /\ eq(not(ret[2]), args[1])

C6_Witness ==
    /\ op = "not"
    /\ args[1] = new(TRUE, FALSE, TRUE, FALSE)
    /\ ret[2] = new(FALSE, TRUE, FALSE, TRUE)

\* C10: the array conversions decode the bitmask per lane: element i of the bool
\* array is ((bitmask >> i) & 1 != 0), element i of the u32 array is 0xFFFFFFFF
\* when that bit is 1 and 0 otherwise, and the bool array of new(x, y, z, w) is
\* [x, y, z, w].
C10_ArrayConversions ==
    /\ (op = "from_bool_array" =>
            /\ \A i \in 0..3 :
                   ret[2][i + 1] = (u32_and(u32_shr(bitmask(args[1]), i), Lit(1)) # Zero)
            /\ \A x \in BOOLEAN, y \in BOOLEAN, z \in BOOLEAN, w_ \in BOOLEAN :
                   args[1] = new(x, y, z, w_) => ret[2] = <<x, y, z, w_>>)
    /\ (op = "from_u32_array" =>
            \A i \in 0..3 :
                ret[2][i + 1] = IF i \in bitmask(args[1]) THEN AllOnes ELSE Zero)

C10_Witness ==
    /\ op = "from_bool_array"
    /\ args[1] = new(FALSE, TRUE, TRUE, FALSE)
    /\ ret[2] = <<FALSE, TRUE, TRUE, FALSE>>

\* C7: equality and hashing depend only on the bitmask: m1 == m2 iff their bitmasks
\* are equal, masks with equal bitmasks feed the same value to the hasher, and two
\* registers that differ only below each lane's most significant bit compare equal
\* and hash identically.
C7_EqHashByBitmask ==
    /\ (op = "eq" =>
            /\ ret[2] <=> (bitmask(args[1]) = bitmask(args[2]))
            /\ (SameSignBits(args[1], args[2]) => ret[2]))
    /\ (op = "hash" =>
            \A m \in {a, b} :
                /\ (bitmask(m) = bitmask(args[1]) => hash(m) = ret[2])
                /\ (SameSignBits(m, args[1]) => hash(m) = ret[2] /\ eq(m, args[1])))

C7_Witness ==
    /\ op = "eq"
    /\ args[1] # args[2]
    /\ ~IsCanonical(args[1])
    /\ SameSignBits(args[1], args[2])
    /\ Mixed(args[2])
    /\ ret[2] = TRUE

(***************************************************************************)
(* NewTypeVector.  The backing vector is a two-lane vector of small         *)
(* naturals with wrapping lane arithmetic; the two flavors F and G share   *)
(* it.  A value is [ty, val]: a wrapper of a flavor, a bare backing vector *)
(* or a scalar.                                                            *)
(***************************************************************************)
MaxLane == 2
LaneVals == 0..MaxLane
Modulus == MaxLane + 1
BackingVals == LaneVals \X LaneVals
Flavors == {"F", "G"}

TyNTV(F) == <<"NewTypeVector", F>>
TyBacking == <<"Backing">>
TyScalar == <<"Scalar">>

RECURSIVE nat_and(_, _)
nat_and(p, q) ==
    IF p = 0 \/ q = 0 THEN 0
    ELSE (p % 2) * (q % 2) + 2 * nat_and(p \div 2, q \div 2)
nat_or(p, q) == p + q - nat_and(p, q)
nat_xor(p, q) == p + q - 2 * nat_and(p, q)

\* the backing type's own operators, lane by lane
back_default == <<0, 0>>
back_add(x, y) == <<(x[1] + y[1]) % Modulus, (x[2] + y[2]) % Modulus>>
back_sub(x, y) == <<(x[1] - y[1]) % Modulus, (x[2] - y[2]) % Modulus>>
back_mul(x, y) == <<(x[1] * y[1]) % Modulus, (x[2] * y[2]) % Modulus>>
back_div(x, y) == <<x[1] \div y[1], x[2] \div y[2]>>
back_rem(x, y) == <<x[1] % y[1], x[2] % y[2]>>
back_bitand(x, y) == <<nat_and(x[1], y[1]), nat_and(x[2], y[2])>>
back_bitor(x, y) == <<nat_or(x[1], y[1]) % Modulus, nat_or(x[2], y[2]) % Modulus>>
back_bitxor(x, y) == <<nat_xor(x[1], y[1]) % Modulus, nat_xor(x[2], y[2]) % Modulus>>
back_not(x) == <<MaxLane - x[1], MaxLane - x[2]>>
back_neg(x) == <<(0 - x[1]) % Modulus, (0 - x[2]) % Modulus>>
back_add_assign(x, y) == back_add(x, y)
back_sub_assign(x, y) == back_sub(x, y)
back_mul_assign(x, y) == back_mul(x, y)
back_div_assign(x, y) == back_div(x, y)
back_rem_assign(x, y) == back_rem(x, y)
\* the backing type shifts by a scalar or, lane by lane, by a backing vector
ShiftAmount(rhs, i) == IF rhs.ty = TyScalar THEN rhs.val ELSE rhs.val[i]
back_shl(x, rhs) ==
    <<(x[1] * (2 ^ ShiftAmount(rhs, 1))) % Modulus, (x[2] * (2 ^ ShiftAmount(rhs, 2))) % Modulus>>
back_shr(x, rhs) ==
    <<x[1] \div (2 ^ ShiftAmount(rhs, 1)), x[2] \div (2 ^ ShiftAmount(rhs, 2))>>
\* the right-hand types R with F::Backing: Shl<R> and Shr<R>
BackingShiftRhs == {TyBacking, TyScalar}
NoZeroLane(x) == x[1] # 0 /\ x[2] # 0

\* the rules a flavor's author may declare: (target flavor, source type)
AuthorPairs ==
    {<<"F", TyNTV("G")>>, <<"G", TyNTV("F")>>, <<"F", TyBacking>>, <<"F", TyScalar>>}

\* an author's rule: a bare backing vector as it is, a scalar splatted, a wrapper
\* of another flavor with its lanes exchanged
author_vec_backing_from(F, other) ==
    CASE other.ty = TyBacking -> other.val
      [] other.ty = TyScalar -> <<other.val, other.val>>
      [] OTHER -> <<other.val[2], other.val[1]>>

from_raw(F, vec) == [ty |-> TyNTV(F), val |-> vec]

into_raw(self) == self.val

\* PartialEq for NewTypeVector<F>
ntv_eq(self, other) == self.val = other.val

\* the flavor F of a NewTypeVector<F>
FlavorOf(self) == self.ty[2]
IsNTV(x) == x.ty[1] = "NewTypeVector"

Bad_FlavorConvertFrom(F, O) == O[1] = "NewTypeVector" \/ <<F, O>> \in rules
\* the bound F: FlavorConvertFrom<O>
FlavorConvertFrom(F, O) == O = TyNTV(F) \/ <<F, O>> \in rules

Bad_vec_backing_from(F, other) ==
    IF other.ty = TyNTV(F) THEN back_default ELSE author_vec_backing_from(F, other)
vec_backing_from(F, other) ==
    IF other.ty = TyNTV(F) THEN into_raw(other) ELSE author_vec_backing_from(F, other)

from(F, other) == from_raw(F, vec_backing_from(F, other))

into(self, T) == from(T, self)

\* the closure f is a function on the backing values
map_raw(self, f) == from_raw(FlavorOf(self), f[into_raw(self)])

ntv_default(F) == from_raw(F, back_default)

Conv(self, rhs) == vec_backing_from(FlavorOf(self), rhs)
SetRaw(self, vec) == [self EXCEPT !.val = vec]

add(self, rhs) == map_raw(self, [lhs \in BackingVals |-> back_add(lhs, Conv(self, rhs))])
add_assign(self, rhs) == SetRaw(self, back_add_assign(self.val, Conv(self, rhs)))
Bad_sub(self, rhs) ==
    map_raw(self, [lhs \in BackingVals |-> back_sub(lhs, IF IsNTV(rhs) THEN into_raw(rhs) ELSE Conv(self, rhs))])
sub(self, rhs) == map_raw(self, [lhs \in BackingVals |-> back_sub(lhs, Conv(self, rhs))])
Bad_sub_assign(self, rhs) == SetRaw(self, back_sub_assign(Conv(self, rhs), self.val))
sub_assign(self, rhs) == SetRaw(self, back_sub_assign(self.val, Conv(self, rhs)))
mul(self, rhs) == map_raw(self, [lhs \in BackingVals |-> back_mul(lhs, Conv(self, rhs))])
mul_assign(self, rhs) == SetRaw(self, back_mul_assign(self.val, Conv(self, rhs)))
div(self, rhs) == map_raw(self, [lhs \in BackingVals |-> back_div(lhs, Conv(self, rhs))])
div_assign(self, rhs) == SetRaw(self, back_div_assign(self.val, Conv(self, rhs)))
rem(self, rhs) == map_raw(self, [lhs \in BackingVals |-> back_rem(lhs, Conv(self, rhs))])
rem_assign(self, rhs) == SetRaw(self, back_rem_assign(self.val, Conv(self, rhs)))
ntv_not(self) == map_raw(self, [lhs \in BackingVals |-> back_not(lhs)])
neg(self) == map_raw(self, [lhs \in BackingVals |-> back_neg(lhs)])
shl(self, rhs) == map_raw(self, [v \in BackingVals |-> back_shl(v, rhs)])
shr(self, rhs) == map_raw(self, [v \in BackingVals |-> back_shr(v, rhs)])
ntv_bitand(self, rhs) == map_raw(self, [lhs \in BackingVals |-> back_bitand(lhs, Conv(self, rhs))])
ntv_bitor(self, rhs) == map_raw(self, [lhs \in BackingVals |-> back_bitor(lhs, Conv(self, rhs))])
ntv_bitxor(self, rhs) == map_raw(self, [lhs \in BackingVals |-> back_bitxor(lhs, Conv(self, rhs))])

(***************************************************************************)
(* The wrapper program: the rules the authors declared (fixed), a wrapper  *)
(* w, and the call in progress with its operands and the value it returned *)
(* until WConsume.                                                         *)
(***************************************************************************)
Wrappers == {from_raw(F, v) : F \in Flavors, v \in BackingVals}
Operands ==
    Wrappers
        \cup {[ty |-> TyBacking, val |-> v] : v \in BackingVals}
        \cup {[ty |-> TyScalar, val |-> s] : s \in LaneVals}

NoValue == <<>>
Returned(type, v) == <<type, v>>

InitWrap ==
    /\ rules \in SUBSET AuthorPairs
    /\ w \in {ntv_default(F) : F \in Flavors}
    /\ wop = "idle"
    /\ wargs = <<>>
    /\ wret = <<>>

WFromRaw ==
    /\ wop = "idle"
    /\ \E F \in Flavors, v \in BackingVals :
           /\ wop' = "from_raw"
           /\ wargs' = <<F, v>>
           /\ wret' = Returned("NewTypeVector", from_raw(F, v))
           /\ w' = from_raw(F, v)
           /\ UNCHANGED <<rules>>
           /\ UNCHANGED maskVars

WFrom ==
    /\ wop = "idle"
    /\ \E F \in Flavors, other \in Operands :
           /\ FlavorConvertFrom(F, other.ty)
           /\ wop' = "from"
           /\ wargs' = <<F, other>>
           /\ wret' = Returned("NewTypeVector", from(F, other))
           /\ w' = from(F, other)
           /\ UNCHANGED <<rules>>
           /\ UNCHANGED maskVars

WInto ==
    /\ wop = "idle"
    /\ \E T \in Flavors :
           /\ FlavorConvertFrom(T, w.ty)
           /\ wop' = "into"
           /\ wargs' = <<w, T>>
           /\ wret' = Returned("NewTypeVector", into(w, T))
           /\ UNCHANGED <<w, rules>>
           /\ UNCHANGED maskVars

WIntoRaw ==
    /\ wop = "idle"
    /\ wop' = "into_raw"
    /\ wargs' = <<w>>
    /\ wret' = Returned("F::Backing", into_raw(w))
    /\ UNCHANGED <<w, rules>>
    /\ UNCHANGED maskVars

WAdd ==
    /\ wop = "idle"
    /\ \E rhs \in Operands :
           /\ FlavorConvertFrom(FlavorOf(w), rhs.ty)
           /\ wop' = "add"
           /\ wargs' = <<w, rhs>>
           /\ wret' = Returned("NewTypeVector", add(w, rhs))
           /\ UNCHANGED <<w, rules>>
           /\ UNCHANGED maskVars

WAddAssign ==
    /\ wop = "idle"
    /\ \E rhs \in Operands :
           /\ FlavorConvertFrom(FlavorOf(w), rhs.ty)
           /\ wop' = "add_assign"
           /\ wargs' = <<w, rhs>>
           /\ wret' = NoValue
           /\ w' = add_assign(w, rhs)
           /\ UNCHANGED <<rules>>
           /\ UNCHANGED maskVars

WSub ==
    /\ wop = "idle"
    /\ \E rhs \in Operands :
           /\ FlavorConvertFrom(FlavorOf(w), rhs.ty)
           /\ wop' = "sub"
           /\ wargs' = <<w, rhs>>
           /\ wret' = Returned("NewTypeVector", sub(w, rhs))
           /\ UNCHANGED <<w, rules>>
           /\ UNCHANGED maskVars

WSubAssign ==
    /\ wop = "idle"
    /\ \E rhs \in Operands :
           /\ FlavorConvertFrom(FlavorOf(w), rhs.ty)
           /\ wop' = "sub_assign"
           /\ wargs' = <<w, rhs>>
           /\ wret' = NoValue
           /\ w' = sub_assign(w, rhs)
           /\ UNCHANGED <<rules>>
           /\ UNCHANGED maskVars

WMul ==
    /\ wop = "idle"
    /\ \E rhs \in Operands :
           /\ FlavorConvertFrom(FlavorOf(w), rhs.ty)
           /\ wop' = "mul"
           /\ wargs' = <<w, rhs>>
           /\ wret' = Returned("NewTypeVector", mul(w, rhs))
           /\ UNCHANGED <<w, rules>>
           /\ UNCHANGED maskVars

WMulAssign ==
    /\ wop = "idle"
    /\ \E rhs \in Operands :
           /\ FlavorConvertFrom(FlavorOf(w), rhs.ty)
           /\ wop' = "mul_assign"
           /\ wargs' = <<w, rhs>>
           /\ wret' = NoValue
           /\ w' = mul_assign(w, rhs)
           /\ UNCHANGED <<rules>>
           /\ UNCHANGED maskVars

WDiv ==
    /\ wop = "idle"
    /\ \E rhs \in Operands :
           /\ FlavorConvertFrom(FlavorOf(w), rhs.ty)
           /\ NoZeroLane(Conv(w, rhs))
           /\ wop' = "div"
           /\ wargs' = <<w, rhs>>
           /\ wret' = Returned("NewTypeVector", div(w, rhs))
           /\ UNCHANGED <<w, rules>>
           /\ UNCHANGED maskVars

WDivAssign ==
    /\ wop = "idle"
    /\ \E rhs \in Operands :
           /\ FlavorConvertFrom(FlavorOf(w), rhs.ty)
           /\ NoZeroLane(Conv(w, rhs))
           /\ wop' = "div_assign"
           /\ wargs' = <<w, rhs>>
           /\ wret' = NoValue
           /\ w' = div_assign(w, rhs)
           /\ UNCHANGED <<rules>>
           /\ UNCHANGED maskVars

WRem ==
    /\ wop = "idle"
    /\ \E rhs \in Operands :
           /\ FlavorConvertFrom(FlavorOf(w), rhs.ty)
           /\ NoZeroLane(Conv(w, rhs))
           /\ wop' = "rem"
           /\ wargs' = <<w, rhs>>
           /\ wret' = Returned("NewTypeVector", rem(w, rhs))
           /\ UNCHANGED <<w, rules>>
           /\ UNCHANGED maskVars

WRemAssign ==
    /\ wop = "idle"
    /\ \E rhs \in Operands :
           /\ FlavorConvertFrom(FlavorOf(w), rhs.ty)
           /\ NoZeroLane(Conv(w, rhs))
           /\ wop' = "rem_assign"
           /\ wargs' = <<w, rhs>>
           /\ wret' = NoValue
           /\ w' = rem_assign(w, rhs)
           /\ UNCHANGED <<rules>>
           /\ UNCHANGED maskVars

WBitAnd ==
    /\ wop = "idle"
    /\ \E rhs \in Operands :
           /\ FlavorConvertFrom(FlavorOf(w), rhs.ty)
           /\ wop' = "bitand"
           /\ wargs' = <<w, rhs>>
           /\ wret' = Returned("NewTypeVector", ntv_bitand(w, rhs))
           /\ UNCHANGED <<w, rules>>
           /\ UNCHANGED maskVars

WBitOr ==
    /\ wop = "idle"
    /\ \E rhs \in Operands :
           /\ FlavorConvertFrom(FlavorOf(w), rhs.ty)
           /\ wop' = "bitor"
           /\ wargs' = <<w, rhs>>
           /\ wret' = Returned("NewTypeVector", ntv_bitor(w, rhs))
           /\ UNCHANGED <<w, rules>>
           /\ UNCHANGED maskVars

WBitXor ==
    /\ wop = "idle"
    /\ \E rhs \in Operands :
           /\ FlavorConvertFrom(FlavorOf(w), rhs.ty)
           /\ wop' = "bitxor"
           /\ wargs' = <<w, rhs>>
           /\ wret' = Returned("NewTypeVector", ntv_bitxor(w, rhs))
           /\ UNCHANGED <<w, rules>>
           /\ UNCHANGED maskVars

WShl ==
    /\ wop = "idle"
    /\ \E rhs \in Operands :
           /\ rhs.ty \in BackingShiftRhs
           /\ wop' = "shl"
           /\ wargs' = <<w, rhs>>
           /\ wret' = Returned("NewTypeVector", shl(w, rhs))
           /\ UNCHANGED <<w, rules>>
           /\ UNCHANGED maskVars

WShr ==
    /\ wop = "idle"
    /\ \E rhs \in Operands :
           /\ rhs.ty \in BackingShiftRhs
           /\ wop' = "shr"
           /\ wargs' = <<w, rhs>>
           /\ wret' = Returned("NewTypeVector", shr(w, rhs))
           /\ UNCHANGED <<w, rules>>
           /\ UNCHANGED maskVars

WNot ==
    /\ wop = "idle"
    /\ wop' = "not"
    /\ wargs' = <<w>>
    /\ wret' = Returned("NewTypeVector", ntv_not(w))
    /\ UNCHANGED <<w, rules>>
    /\ UNCHANGED maskVars

WNeg ==
    /\ wop = "idle"
    /\ wop' = "neg"
    /\ wargs' = <<w>>
    /\ wret' = Returned("NewTypeVector", neg(w))
    /\ UNCHANGED <<w, rules>>
    /\ UNCHANGED maskVars

WConsume ==
    /\ wop # "idle"
    /\ wop' = "idle"
    /\ wargs' = <<>>
    /\ wret' = <<>>
    /\ UNCHANGED <<w, rules>>
    /\ UNCHANGED maskVars

NextWrap ==
    \/ WFromRaw \/ WFrom \/ WInto \/ WIntoRaw
    \/ WAdd \/ WAddAssign \/ WSub \/ WSubAssign \/ WMul \/ WMulAssign
    \/ WDiv \/ WDivAssign \/ WRem \/ WRemAssign
    \/ WBitAnd \/ WBitOr \/ WBitXor \/ WShl \/ WShr
    \/ WNot \/ WNeg
    \/ WConsume

InitNewType == InitWrap /\ InitMask

SpecNewType == InitNewType /\ [][NextWrap]_vars

(***************************************************************************)
(* Properties of the wrapper.                                              *)
(***************************************************************************)
ConvertingOps == {"add", "sub", "mul", "div", "rem", "bitand", "bitor", "bitxor"}
ShiftOps == {"shl", "shr"}
AssignOps == {"add_assign", "sub_assign", "mul_assign", "div_assign", "rem_assign"}

BackBin(name, x, y) ==
    CASE name = "add" -> back_add(x, y)
      [] name = "sub" -> back_sub(x, y)
      [] name = "mul" -> back_mul(x, y)
      [] name = "div" -> back_div(x, y)
      [] name = "rem" -> back_rem(x, y)
      [] name = "bitand" -> back_bitand(x, y)
      [] name = "bitor" -> back_bitor(x, y)
      [] name = "bitxor" -> back_bitxor(x, y)

BackAssign(name, x, y) ==
    CASE name = "add_assign" -> back_add_assign(x, y)
      [] name = "sub_assign" -> back_sub_assign(x, y)
      [] name = "mul_assign" -> back_mul_assign(x, y)
      [] name = "div_assign" -> back_div_assign(x, y)
      [] name = "rem_assign" -> back_rem_assign(x, y)

BackShift(name, x, rhs) == IF name = "shl" THEN back_shl(x, rhs) ELSE back_shr(x, rhs)

\* the pair (F, R) is in the declared set: declared by an author, or F's own wrapper
Declared(F, R) == R = TyNTV(F) \/ <<F, R>> \in rules

\* the result the claim C2 describes: the right-hand side converted, then the
\* backing operator
Converted(name, self, rhs) ==
    LET v == vec_backing_from(FlavorOf(self), rhs)
    IN  IF name \in ShiftOps
        THEN from_raw(FlavorOf(self), BackShift(name, into_raw(self), [ty |-> TyBacking, val |-> v]))
        ELSE from_raw(FlavorOf(self), BackBin(name, into_raw(self), v))

\* C2 as stated: every forwarded binary operator, << and >> included, converts
\* its right-hand operand with the flavor's declared rule before the backing
\* operator is invoked.
C2_AllBinaryOpsConvert ==
    wop \in ConvertingOps \cup ShiftOps =>
        /\ Declared(FlavorOf(wargs[1]), wargs[2].ty)
        /\ wret[2] = Converted(wop, wargs[1], wargs[2])

\* C2 amended: +, -, *, /, %, &, | and ^ convert the right-hand operand with the
\* flavor's declared rule and then invoke the backing operator; << and >> hand
\* the right-hand operand to the backing operator unconverted.
C2_ConvertExceptShifts ==
    /\ (wop \in ConvertingOps =>
            /\ Declared(FlavorOf(wargs[1]), wargs[2].ty)
            /\ wret[2] = Converted(wop, wargs[1], wargs[2]))
    /\ (wop \in ShiftOps =>
            wret[2] = from_raw(FlavorOf(wargs[1]), BackShift(wop, into_raw(wargs[1]), wargs[2])))

C2_Witness ==
    /\ wop = "sub"
    /\ wargs[1] = from_raw("F", <<2, 2>>)
    /\ wargs[2] = from_raw("G", <<1, 2>>)
    /\ wret[2] = from_raw("F", <<0, 1>>)

\* the flavor and the other type an operation combines
CombinedPair ==
    CASE wop = "from" -> <<wargs[1], wargs[2].ty>>
      [] wop = "into" -> <<wargs[2], wargs[1].ty>>
      [] OTHER -> <<FlavorOf(wargs[1]), wargs[2].ty>>

\* C3 as stated: from, into and every binary or assigning operator with a
\* right-hand type R is available only if (F, R) is in the declared set, whose
\* only undeclared member is (F, NewTypeVector<F>).
C3_EveryOpNeedsRule ==
    wop \in {"from", "into"} \cup ConvertingOps \cup AssignOps \cup ShiftOps =>
        Declared(CombinedPair[1], CombinedPair[2])

\* C3 amended: from, into and every binary or assigning operator other than <<
\* and >> is available only if (F, R) is in the declared set; << and >> are
\* available whenever the backing type implements the shift for R, whatever the
\* declared set holds.
C3_OpsNeedRuleExceptShifts ==
    /\ (wop \in {"from", "into"} \cup ConvertingOps \cup AssignOps =>
            Declared(CombinedPair[1], CombinedPair[2]))
    /\ (wop \in ShiftOps => wargs[2].ty \in BackingShiftRhs)

C3_Witness ==
    /\ wop = "add_assign"
    /\ FlavorOf(wargs[1]) = "F"
    /\ wargs[2].ty = TyNTV("G")
    /\ rules = {<<"F", TyNTV("G")>>}

\* C8: between wrappers of one flavor each of +, -, *, /, %, &, |, ^ returns the
\* wrapper of a op b, and each of +=, -=, *=, /=, %= leaves in the left wrapper
\* what the backing type's assigning operator makes of a and b; the flavor is
\* unchanged and no authored rule is needed.
C8_SameFlavorForwarding ==
    /\ (wop \in ConvertingOps /\ wargs[2].ty = wargs[1].ty =>
            /\ into_raw(wret[2]) = BackBin(wop, into_raw(wargs[1]), into_raw(wargs[2]))
            /\ wret[2].ty = wargs[1].ty
            /\ w = wargs[1])
    /\ (wop \in AssignOps /\ wargs[2].ty = wargs[1].ty =>
            /\ into_raw(w) = BackAssign(wop, into_raw(wargs[1]), into_raw(wargs[2]))
            /\ w.ty = wargs[1].ty)

C8_Witness ==
    /\ wop = "sub"
    /\ rules = {}
    /\ wargs[1] = from_raw("G", <<1, 0>>)
    /\ wargs[2] = from_raw("G", <<2, 1>>)
    /\ into_raw(wret[2]) = <<2, 2>>

\* C9: converting a wrapper to its own flavor, by into or by from, returns it
\* with its backing value unchanged; the automatic rule returns into_raw of the
\* wrapper; and from_raw(v).into_raw() is v.
C9_IdentityConversion ==
    /\ (wop = "into" /\ wargs[2] = FlavorOf(wargs[1]) =>
            /\ wret[2] = wargs[1]
            /\ ntv_eq(wret[2], wargs[1])
            /\ into_raw(wret[2]) = into_raw(wargs[1]))
    /\ (wop = "from" /\ wargs[2].ty = TyNTV(wargs[1]) =>
            /\ wret[2] = wargs[2]
            /\ ntv_eq(wret[2], wargs[2]))
    /\ (wop = "from_raw" =>
            /\ into_raw(wret[2]) = wargs[2]
            /\ FlavorOf(wret[2]) = wargs[1])
    /\ vec_backing_from(FlavorOf(w), w) = into_raw(w)

C9_Witness ==
    /\ wop = "into"
    /\ wargs[2] = FlavorOf(wargs[1])
    /\ rules = {}
    /\ wargs[1] = from_raw("F", <<1, 2>>)
    /\ wret[2] = wargs[1]

====
